---------------------------- MODULE Spec2Model ----------------------------
(***************************************************************************)
(* A model of the ac-calc earning engine:                                  *)
(*   src/ac_calc/airlines/__init__.py  Airline.__eq__, Airline._distance,  *)
(*                                     Airline.calculate, AirCanada        *)
(*   src/apps/ac-calc.py               calculate_points_miles              *)
(*                                                                         *)
(* Python values are records carrying a `kind`:                            *)
(*   [kind |-> "None"]                    None                             *)
(*   [kind |-> "num", n |-> n, d |-> d]   the number n/d (d > 0)           *)
(*   [kind |-> "dict", items |-> f]       a dict, f its key -> value map   *)
(*   [kind |-> "Distance", ...]           a distance record object         *)
(*   [kind |-> "TypeError"] ...           a raised exception               *)
(* Numbers are exact rationals; int() truncates them toward zero.          *)
(***************************************************************************)
EXTENDS Integers, Sequences, FiniteSets, TLC

VARIABLES
    \* the segment calculator applied to one set of inputs
    airline, origin, destination, fare_brand, fare_class, aeroplan_status,
    calculation,
    \* the equality comparison applied to one pair of values
    eq_self, eq_other, eq_result,
    \* the calculator page: catalog, itinerary, and what one script run shows
    AIRPORTS, itinerary, segment_calculations,
    total_distance, total_app, total_app_bonus, total_sqm, total_sqd

calc_vars == <<airline, origin, destination, fare_brand, fare_class,
               aeroplan_status, calculation>>
eq_vars == <<eq_self, eq_other, eq_result>>
app_vars == <<AIRPORTS, itinerary, segment_calculations,
              total_distance, total_app, total_app_bonus, total_sqm, total_sqd>>
vars == <<calc_vars, eq_vars, app_vars>>

----------------------------------------------------------------------------
(* Python values and arithmetic *)

None == [kind |-> "None"]
Num(n, d) == [kind |-> "num", n |-> n, d |-> d]
IntNum(n) == Num(n, 1)
Dict(f) == [kind |-> "dict", items |-> f]
Raised(e) == [kind |-> e]
NotStarted == [kind |-> "NotStarted"]

\* bool(v): None, zero and the empty dict are falsy, other objects truthy
Truthy(v) ==
    CASE v.kind = "None" -> FALSE
      [] v.kind = "num"  -> v.n # 0
      [] v.kind = "dict" -> DOMAIN v.items # {}
      [] OTHER           -> TRUE

\* a or b
PyOr(a, b) == IF Truthy(a) THEN a ELSE b

\* d.get(k, default)
DictGet(d, k, default) == IF k \in DOMAIN d THEN d[k] ELSE default

RECURSIVE Gcd(_, _)
Gcd(x, y) == IF y = 0 THEN x ELSE Gcd(y, x % y)

\* the number n/d in lowest terms
Norm(n, d) ==
    LET g == Gcd(IF n < 0 THEN -n ELSE n, d)
    IN  Num(n \div g, d \div g)

\* a * b on numbers
Mul(a, b) == Norm(a.n * b.n, a.d * b.d)

\* a + b on numbers
Add(a, b) == Norm(a.n * b.d + b.n * a.d, a.d * b.d)

\* a < b on numbers
Lt(a, b) == a.n * b.d < b.n * a.d

\* a == b on numbers
NumEq(a, b) == a.n * b.d = b.n * a.d

\* max(a, b): the first argument unless the second is strictly larger
PyMax(a, b) == IF Lt(a, b) THEN b ELSE a

\* a variant of min(a, b) that always yields the first argument
PyMinUncapped(a, b) == a

\* min(a, b): the first argument unless the second is strictly smaller
PyMin(a, b) == IF Lt(b, a) THEN b ELSE a

\* a variant of int(v) that rounds to the nearest integer
PyIntRound(v) ==
    IF v.n >= 0 THEN (2 * v.n + v.d) \div (2 * v.d)
                ELSE -((2 * (-v.n) + v.d) \div (2 * v.d))

\* int(v): truncation toward zero
PyInt(v) == IF v.n >= 0 THEN v.n \div v.d ELSE -((-v.n) \div v.d)

----------------------------------------------------------------------------
(* Airline._distance *)

EarthRadiusMi == 3959

Abs(x) == IF x < 0 THEN -x ELSE x

\* pow(sin(radians(deg) / 2), 2) in quarters, for deg a multiple of 60
SinSqHalf4(deg) ==
    LET m == Abs(deg) % 360
    IN  CASE m = 0   -> 0
          [] m = 60  -> 1
          [] m = 120 -> 3
          [] m = 180 -> 4
          [] m = 240 -> 3
          [] m = 300 -> 1

\* cos(radians(deg)) in halves, for deg in {-60, 0, 60}
Cos2(deg) == IF deg = 0 THEN 2 ELSE 1

\* 2 * asin(sqrt(k / 16)) in hundredths of a radian, k in 0..16
HaversineArc100 ==
    <<0, 51, 72, 90, 105, 119, 132, 145, 157, 170, 182, 196, 209, 225, 242,
      264, 314>>

\* the else branch of _distance: great-circle distance from the coordinates
Haversine(o, dst) ==
    LET d_lat == dst.latitude - o.latitude
        d_lon == dst.longitude - o.longitude
        a16   == 4 * SinSqHalf4(d_lat)
                 + SinSqHalf4(d_lon) * Cos2(o.latitude) * Cos2(dst.latitude)
        c100  == HaversineArc100[a16 + 1]
    IN  Num(EarthRadiusMi * c100, 100)

Airline_distance(o, dst) ==
    LET distance == DictGet(o.distances, dst.iata_code, None)
    IN  IF Truthy(distance)
        THEN PyOr(distance.distance, distance.old_distance)
        ELSE Haversine(o, dst)

----------------------------------------------------------------------------
(* Airline.calculate *)

SegmentCalculation(distance, app, app_earning_rate, app_bonus_factor, app_bonus, sqm, sqm_earning_rate) ==
    [kind |-> "SegmentCalculation",
     distance |-> distance,
     app |-> app, app_earning_rate |-> app_earning_rate,
     app_bonus_factor |-> app_bonus_factor, app_bonus |-> app_bonus,
     sqm |-> sqm, sqm_earning_rate |-> sqm_earning_rate]

\* self.earning_rates.get(fare_class, None) or self.earning_rates.get(fare_brand.name, 0)
EarningRate(self, brand, class) ==
    PyOr(DictGet(self.earning_rates, class, None),
         DictGet(self.earning_rates, brand.name, IntNum(0)))

\* max(distance * rate, aeroplan_status.min_earning_value) if self.earns_app else 0
App(self, distance, rate, status) ==
    IF self.earns_app
    THEN PyMax(Mul(distance, rate), status.min_earning_value)
    ELSE IntNum(0)

\* min(app, distance) * app_bonus_factor
AppBonus(app, distance, status) ==
    Mul(PyMin(app, distance), status.bonus_factor)

\* a variant of the status-miles line that reads the earns_app flag
SqmFromEarnsApp(self, distance, rate, status) ==
    IF self.earns_app
    THEN PyMax(Mul(distance, rate), status.min_earning_value)
    ELSE IntNum(0)

\* max(distance * rate, aeroplan_status.min_earning_value) if self.earns_sqm else 0
Sqm(self, distance, rate, status) ==
    IF self.earns_sqm
    THEN PyMax(Mul(distance, rate), status.min_earning_value)
    ELSE IntNum(0)

\* lines 67-83: the calculation once the distance is known to be truthy
Earnings(self, distance, brand, class, status) ==
    LET app_earning_rate == EarningRate(self, brand, class)
        app_bonus_factor == status.bonus_factor
        sqm_earning_rate == EarningRate(self, brand, class)
    IN  IF (self.earns_app /\ app_earning_rate.kind # "num")
           \/ (self.earns_sqm /\ sqm_earning_rate.kind # "num")
        THEN Raised("TypeError")   \* float * dict
        ELSE LET app       == App(self, distance, app_earning_rate, status)
                 app_bonus == AppBonus(app, distance, status)
                 sqm       == Sqm(self, distance, sqm_earning_rate, status)
             IN  SegmentCalculation(distance, PyInt(app), app_earning_rate,
                                    app_bonus_factor, PyInt(app_bonus),
                                    PyInt(sqm), sqm_earning_rate)

\* a variant of calculate whose early return is taken for None only
Airline_calculate_NoZeroRule(self, o, dst, brand, class, status) ==
    LET distance == Airline_distance(o, dst)
    IN  IF distance.kind # "num"
        THEN SegmentCalculation(distance, 0, IntNum(0), IntNum(0), 0, 0, IntNum(0))
        ELSE Earnings(self, distance, brand, class, status)

\* lines 54-83
Airline_calculate(self, o, dst, brand, class, status) ==
    LET distance == Airline_distance(o, dst)
    IN  IF ~Truthy(distance)
        THEN SegmentCalculation(distance, 0, IntNum(0), IntNum(0), 0, 0, IntNum(0))
        ELSE Earnings(self, distance, brand, class, status)


----------------------------------------------------------------------------
(* Reference data *)

\* a variant of the Air Canada table flattened to its Domestic rates
AirCanadaEarningRatesFlat ==
    ("Basic" :> Num(1, 10)) @@ ("Standard" :> Num(1, 4)) @@
    ("Flex" :> Num(1, 1)) @@ ("Comfort" :> Num(23, 20)) @@
    ("Latitude" :> Num(5, 4))

\* AirCanada.earning_rates: region -> "*" -> fare brand -> rate
AirCanadaEarningRates ==
    ("Domestic" :> Dict("*" :> Dict(
        ("Basic" :> Num(1, 10)) @@ ("Standard" :> Num(1, 4)) @@
        ("Flex" :> Num(1, 1)) @@ ("Comfort" :> Num(23, 20)) @@
        ("Latitude" :> Num(5, 4)) @@
        ("Premium Economy (Lowest)" :> Num(5, 4)) @@
        ("Premium Economy (Flexible)" :> Num(5, 4)) @@
        ("Business (Lowest)" :> Num(3, 2)) @@
        ("Business (Flexible)" :> Num(3, 2))))) @@
    ("Transborder" :> Dict("*" :> Dict(
        ("Basic" :> Num(1, 4)) @@ ("Standard" :> Num(1, 2)) @@
        ("Flex" :> Num(1, 1)) @@ ("Comfort" :> Num(23, 20)) @@
        ("Latitude" :> Num(5, 4)) @@
        ("Premium Economy (Lowest)" :> Num(5, 4)) @@
        ("Premium Economy (Flexible)" :> Num(5, 4)) @@
        ("Business (Lowest)" :> Num(3, 2)) @@
        ("Business (Flexible)" :> Num(3, 2))))) @@
    ("International" :> Dict("*" :> Dict(
        ("Basic" :> Num(1, 4)) @@ ("Standard" :> Num(1, 2)) @@
        ("Flex" :> Num(1, 1)) @@ ("Comfort" :> Num(23, 20)) @@
        ("Latitude" :> Num(5, 4)) @@
        ("Premium Economy (Lowest)" :> Num(5, 4)) @@
        ("Premium Economy (Flexible)" :> Num(5, 4)) @@
        ("Business (Lowest)" :> Num(3, 2)) @@
        ("Business (Flexible)" :> Num(3, 2)))))

\* Airline(id, name, region, ..., earns_app, earns_sqm, earning_rates)
Airline(id, name, region, earns_app, earns_sqm, earning_rates) ==
    [kind |-> "Airline", id |-> id, name |-> name, region |-> region,
     earns_app |-> earns_app, earns_sqm |-> earns_sqm,
     earning_rates |-> earning_rates]

AirCanada ==
    Airline("air-canada", "Air Canada", "Canada & U.S.", TRUE, TRUE,
            AirCanadaEarningRates)

\* fare brands: a name and the fare classes sold under it
FareBrand(name, fare_classes) ==
    [kind |-> "FareBrand", name |-> name, fare_classes |-> fare_classes]

NoBrand == FareBrand("None", <<"Y", "K">>)
Basic == FareBrand("Basic", <<"K">>)
Flex == FareBrand("Flex", <<"Y">>)
FARE_BRANDS == <<NoBrand, Basic, Flex>>
FareClasses == {"Y", "K"}

\* status tiers: a bonus factor and a minimum earning value
AeroplanStatus(name, bonus_factor, min_earning_value) ==
    [kind |-> "AeroplanStatus", name |-> name, bonus_factor |-> bonus_factor,
     min_earning_value |-> min_earning_value]

AEROPLAN_STATUSES ==
    << AeroplanStatus("None", Num(0, 1), IntNum(0)),
       AeroplanStatus("Basic", Num(1, 4), IntNum(0)),
       AeroplanStatus("25K", Num(1, 4), IntNum(250)),
       AeroplanStatus("Super Elite", Num(1, 1), IntNum(250)) >>

\* airports: a code, coordinates in degrees, and the recorded distances
Airport(iata_code, latitude, longitude, distances) ==
    [kind |-> "Airport", iata_code |-> iata_code, latitude |-> latitude,
     longitude |-> longitude, distances |-> distances]

AirportCodes == {"AAA", "BBB"}
Latitude(code) == IF code = "AAA" THEN 0 ELSE 60
Longitude(code) == IF code = "AAA" THEN 0 ELSE -60

\* a distance record: the current and the old recorded distance
DistanceRecord(dst, distance, old_distance) ==
    [kind |-> "Distance", destination |-> dst, distance |-> distance,
     old_distance |-> old_distance]

Range(seq) == {seq[i] : i \in DOMAIN seq}

----------------------------------------------------------------------------
(* The segment calculator applied to inputs drawn from bounded sets *)

SampleRates == {Num(0, 1), Num(1, 3), Num(2, 3), Num(3, 2), Num(0 - 1, 2)}
SampleBrandRates == {Num(0, 1), Num(1, 10)}
SampleCurrentDistances == {None, IntNum(0), IntNum(100), IntNum(1000)}
SampleOldDistances == {None, IntNum(700)}

\* flat earning-rate tables: an optional entry for fare class Y and an
\* optional entry for fare brand Basic
SampleEarningRates ==
    { c @@ b : c \in {<<>>} \cup {("Y" :> r) : r \in SampleRates},
               b \in {<<>>} \cup {("Basic" :> r) : r \in SampleBrandRates} }

SampleAirlines ==
    {AirCanada} \cup
    { Airline("partner", "Partner", "Europe", ea, es, t) :
        ea \in BOOLEAN, es \in BOOLEAN, t \in SampleEarningRates }

\* the distances mapping of an origin: no record for dst, or one record
SampleDistances(dst) ==
    {<<>>} \cup { (dst :> DistanceRecord(dst, d, o)) :
                    d \in SampleCurrentDistances, o \in SampleOldDistances }

IdleCalc ==
    /\ airline = NotStarted /\ origin = NotStarted /\ destination = NotStarted
    /\ fare_brand = NotStarted /\ fare_class = "" /\ aeroplan_status = NotStarted
    /\ calculation = NotStarted

IdleEq == eq_self = NotStarted /\ eq_other = NotStarted /\ eq_result = ""

IdleApp ==
    /\ AIRPORTS = <<>> /\ itinerary = NotStarted /\ segment_calculations = <<>>
    /\ total_distance = NotStarted /\ total_app = NotStarted
    /\ total_app_bonus = NotStarted /\ total_sqm = NotStarted
    /\ total_sqd = NotStarted

InitCalc ==
    /\ airline \in SampleAirlines
    /\ \E o \in AirportCodes, d \in AirportCodes :
         /\ origin \in { Airport(o, Latitude(o), Longitude(o), m) :
                           m \in SampleDistances(d) }
         /\ destination = Airport(d, Latitude(d), Longitude(d), <<>>)
    /\ fare_brand \in Range(FARE_BRANDS)
    /\ fare_class \in FareClasses
    /\ aeroplan_status \in Range(AEROPLAN_STATUSES)
    /\ calculation = NotStarted
    /\ IdleEq /\ IdleApp

Calculate ==
    /\ calculation = NotStarted
    /\ calculation' = Airline_calculate(airline, origin, destination,
                                        fare_brand, fare_class, aeroplan_status)
    /\ UNCHANGED <<airline, origin, destination, fare_brand, fare_class,
                   aeroplan_status, eq_vars, app_vars>>

NextCalc == Calculate

SpecCalc == InitCalc /\ [][NextCalc]_vars

Calculated == calculation.kind = "SegmentCalculation"

----------------------------------------------------------------------------
(* Properties of the segment calculator, checked under SpecCalc *)

\* the calculation went past the zero-distance return
Earned == Calculated /\ Truthy(calculation.distance)

\* p is v truncated toward zero
IsTrunc(p, v) ==
    IF v.n >= 0 THEN p >= 0 /\ p * v.d <= v.n /\ v.n < (p + 1) * v.d
                ELSE p <= 0 /\ (p - 1) * v.d < v.n /\ v.n <= p * v.d

\* m is the larger of a and b
IsMax(m, a, b) == m \in {a, b} /\ ~Lt(m, a) /\ ~Lt(m, b)

\* m is the smaller of a and b
IsMin(m, a, b) == m \in {a, b} /\ ~Lt(a, m) /\ ~Lt(b, m)

\* the real-valued earning max(distance * rate, floor) of a flag, 0 if unset
IsEarning(x, flag, rate) ==
    IF flag
    THEN IsMax(x, Mul(calculation.distance, rate),
               aeroplan_status.min_earning_value)
    ELSE x = IntNum(0)

EarningCandidates(rate) ==
    {Mul(calculation.distance, rate), aeroplan_status.min_earning_value,
     IntNum(0)}

\* C1: the resolved rate is the value under the fare-class key whenever that
\* key is in the table (whatever the value, 0 included), the value under
\* the fare-brand name only when the fare-class key is absent, and 0 only
\* when both keys are absent.
C1_RateByClassThenBrand ==
    Earned =>
        LET t == airline.earning_rates
        IN  /\ fare_class \in DOMAIN t
               => calculation.app_earning_rate = t[fare_class]
            /\ (fare_class \notin DOMAIN t /\ fare_brand.name \in DOMAIN t)
               => calculation.app_earning_rate = t[fare_brand.name]
            /\ (fare_class \notin DOMAIN t /\ fare_brand.name \notin DOMAIN t)
               => calculation.app_earning_rate = IntNum(0)

\* the record the origin holds for the destination
HasRecord == destination.iata_code \in DOMAIN origin.distances
Record == origin.distances[destination.iata_code]

\* C2: when the origin holds a record for the destination, the resolved
\* distance is the record's current distance whenever that is present and
\* the old distance only when the current one is absent.
C2_RecordedDistanceFirst ==
    (calculation # NotStarted /\ HasRecord) =>
        calculation.distance =
            IF Record.distance # None THEN Record.distance
                                      ELSE Record.old_distance

\* C3: a record whose current and old distances are both absent is treated
\* as no record: the resolved distance is the haversine number.
C3_EmptyRecordUsesHaversine ==
    (calculation # NotStarted /\ HasRecord
       /\ Record.distance = None /\ Record.old_distance = None) =>
        /\ calculation.distance.kind = "num"
        /\ calculation.distance = Haversine(origin, destination)

\* C4: with a non-zero distance, points are max(distance * rate, floor)
\* truncated toward zero when the airline earns points and 0 otherwise;
\* rate 0 gives the floor, and rate 1/3 over 1000 miles with floor 0 gives 333.
C4_PointsTruncated ==
    Earned =>
        LET rate == calculation.app_earning_rate
        IN  /\ \E x \in EarningCandidates(rate) :
                 /\ IsEarning(x, airline.earns_app, rate)
                 /\ IsTrunc(calculation.app, x)
            /\ (airline.earns_app /\ rate.n = 0)
               => IsTrunc(calculation.app, aeroplan_status.min_earning_value)
            /\ (airline.earns_app /\ NumEq(rate, Num(1, 3))
                  /\ NumEq(calculation.distance, IntNum(1000))
                  /\ aeroplan_status.min_earning_value.n = 0)
               => calculation.app = 333

C4_Witness ==
    /\ Earned /\ airline.earns_app
    /\ calculation.app_earning_rate = Num(2, 3)
    /\ calculation.distance = IntNum(1000)
    /\ aeroplan_status.min_earning_value = IntNum(0)
    /\ calculation.app = 666

\* C5: with a non-zero distance, bonus points are min(P, distance) * bonus
\* factor truncated toward zero, P the points before truncation; so they
\* never exceed distance * bonus factor, and are 0 when the airline does
\* not earn points.
C5_BonusCappedByDistance ==
    Earned =>
        LET rate == calculation.app_earning_rate
            d    == calculation.distance
            bf   == aeroplan_status.bonus_factor
        IN  /\ \E x \in EarningCandidates(rate) :
                 /\ IsEarning(x, airline.earns_app, rate)
                 /\ \E m \in {x, d} :
                      /\ IsMin(m, x, d)
                      /\ IsTrunc(calculation.app_bonus, Mul(m, bf))
            /\ ~Lt(Mul(d, bf), IntNum(calculation.app_bonus))
            /\ ~airline.earns_app => calculation.app_bonus = 0

C5_Witness ==
    /\ Earned /\ airline.earns_app
    /\ calculation.distance = IntNum(100)
    /\ aeroplan_status.min_earning_value = IntNum(250)
    /\ aeroplan_status.bonus_factor = Num(1, 4)
    /\ calculation.app = 250
    /\ calculation.app_bonus = 25

\* C6: with a non-zero distance, status miles are max(distance * rate, floor)
\* truncated toward zero when the airline earns status miles and 0
\* otherwise, at the same rate as the points; flipping only earns_sqm
\* changes nothing but the status miles.
C6_StatusMiles ==
    Earned =>
        LET rate    == calculation.sqm_earning_rate
            flipped == Airline_calculate(
                           [airline EXCEPT !.earns_sqm = ~airline.earns_sqm],
                           origin, destination, fare_brand, fare_class,
                           aeroplan_status)
        IN  /\ rate = calculation.app_earning_rate
            /\ \E x \in EarningCandidates(rate) :
                 /\ IsEarning(x, airline.earns_sqm, rate)
                 /\ IsTrunc(calculation.sqm, x)
            /\ ~airline.earns_sqm => calculation.sqm = 0
            /\ flipped.kind = "SegmentCalculation"
            /\ flipped.distance = calculation.distance
            /\ flipped.app = calculation.app
            /\ flipped.app_earning_rate = calculation.app_earning_rate
            /\ flipped.sqm_earning_rate = calculation.sqm_earning_rate
            /\ flipped.app_bonus_factor = calculation.app_bonus_factor
            /\ flipped.app_bonus = calculation.app_bonus

C6_Witness ==
    /\ Earned /\ airline.earns_app /\ ~airline.earns_sqm
    /\ calculation.distance = IntNum(1000)
    /\ calculation.app_earning_rate = Num(3, 2)
    /\ calculation.app = 1500
    /\ calculation.app_bonus > 0
    /\ calculation.sqm = 0

\* C7: when the resolved distance is zero, every number of the calculation
\* is 0, whatever the airline, fare and status: the floor is not applied.
C7_ZeroDistanceAllZero ==
    (calculation # NotStarted /\ Airline_distance(origin, destination).kind = "num"
       /\ Airline_distance(origin, destination).n = 0) =>
        /\ Calculated
        /\ calculation.distance.kind = "num" /\ calculation.distance.n = 0
        /\ calculation.app = 0 /\ calculation.app_bonus = 0
        /\ calculation.sqm = 0
        /\ calculation.app_earning_rate.n = 0
        /\ calculation.sqm_earning_rate.n = 0
        /\ calculation.app_bonus_factor.n = 0

C7_Witness ==
    /\ Calculated /\ ~HasRecord
    /\ origin.iata_code = destination.iata_code
    /\ airline.earns_app /\ airline.earns_sqm
    /\ aeroplan_status.min_earning_value = IntNum(250)
    /\ aeroplan_status.bonus_factor = Num(1, 1)
    /\ calculation.distance.n = 0 /\ calculation.app = 0

\* the fare brands the Air Canada table names under each region
AirCanadaBrandNames ==
    {"Basic", "Standard", "Flex", "Comfort", "Latitude",
     "Premium Economy (Lowest)", "Premium Economy (Flexible)",
     "Business (Lowest)", "Business (Flexible)"}

\* C10: for Air Canada as shipped the resolved rate is 0 for every fare
\* class and fare brand, so with a non-zero distance points and status
\* miles both equal the truncated floor of the status.
C10_AirCanadaEarnsFloorOnly ==
    (Earned /\ airline.id = "air-canada") =>
        /\ \A name \in AirCanadaBrandNames, class \in FareClasses :
             EarningRate(airline, FareBrand(name, <<class>>), class) = IntNum(0)
        /\ calculation.app_earning_rate = IntNum(0)
        /\ calculation.sqm_earning_rate = IntNum(0)
        /\ IsTrunc(calculation.app, aeroplan_status.min_earning_value)
        /\ IsTrunc(calculation.sqm, aeroplan_status.min_earning_value)

C10_Witness ==
    /\ Earned /\ airline = AirCanada
    /\ fare_brand.name = "Flex"
    /\ calculation.distance = IntNum(1000)
    /\ aeroplan_status.min_earning_value = IntNum(0)
    /\ calculation.app = 0 /\ calculation.sqm = 0

----------------------------------------------------------------------------
(* Airline.__eq__ *)

\* self.id == other.id; reading other.id fails when other has no id
Airline_eq(self, other) ==
    IF "id" \notin DOMAIN other THEN "AttributeError"
    ELSE IF self.id = other.id THEN "True" ELSE "False"

SampleEqAirlines ==
    { Airline(id, name, "Europe", ea, TRUE, <<>>) :
        id \in {"air-canada", "partner", "other"},
        name \in {"Air Canada", "Partner"}, ea \in BOOLEAN }

SampleEqOthers ==
    SampleEqAirlines \cup
    { None, IntNum(14), NoBrand, Basic,
      Airport("AAA", 0, 0, <<>>), Dict(<<>>) }

InitEq ==
    /\ eq_self \in SampleEqAirlines \cup {AirCanada}
    /\ eq_other \in SampleEqOthers \cup {AirCanada}
    /\ eq_result = ""
    /\ IdleCalc /\ IdleApp

Compare ==
    /\ eq_result = ""
    /\ eq_result' = Airline_eq(eq_self, eq_other)
    /\ UNCHANGED <<eq_self, eq_other, calc_vars, app_vars>>

NextEq == Compare

SpecEq == InitEq /\ [][NextEq]_vars

\* C9: an Airline compared with any value is equal exactly when the value
\* is an Airline with the same id; for a value that is not an Airline the
\* comparison yields not-equal and never fails.
C9_EqualityByIdTotal ==
    eq_result # "" =>
        eq_result = IF eq_other.kind = "Airline" /\ eq_other.id = eq_self.id
                    THEN "True" ELSE "False"

----------------------------------------------------------------------------
(* calculate_points_miles: one state per run of the page script *)

MaxSegments == 2

\* the partner carrier of the catalog, with a flat earning-rate table
Partner ==
    Airline("partner", "Partner", "Europe", TRUE, FALSE,
            ("Y" :> Num(1, 1)) @@ ("K" :> Num(1, 2)))

AIRLINES == <<AirCanada, Partner>>

\* the distances mapping of an airport: no record for dst, a record with
\* both distances, or a record with neither
AppDistances(dst) ==
    { <<>>,
      (dst :> DistanceRecord(dst, IntNum(1000), IntNum(700))),
      (dst :> DistanceRecord(dst, None, None)) }

\* the airport catalogs the page may have loaded
Catalogs ==
    { << Airport("AAA", Latitude("AAA"), Longitude("AAA"), m1),
         Airport("BBB", Latitude("BBB"), Longitude("BBB"), m2) >> :
        m1 \in AppDistances("BBB"),
        m2 \in {<<>>, ("AAA" :> DistanceRecord("AAA", None, IntNum(700)))} }

\* list.index(x) under Airline.__eq__
AirlineIndex(seq, x) ==
    CHOOSE i \in DOMAIN seq :
        /\ Airline_eq(seq[i], x) = "True"
        /\ \A j \in 1..(i - 1) : Airline_eq(seq[j], x) # "True"

\* list.index(x)
Index(seq, x) ==
    CHOOSE i \in DOMAIN seq : seq[i] = x /\ \A j \in 1..(i - 1) : seq[j] # x

NoChoice == [kind |-> "NoChoice"]

\* st.selectbox(options, index=index): the option the user picks in this
\* run, or the option at index when the widget is left alone
Selectbox(options, index, choice) ==
    IF choice.kind = "NoChoice" THEN options[index] ELSE choice.value

Segment(airline_, origin_, destination_, fare_brand_, fare_class_) ==
    [kind |-> "Segment", airline |-> airline_, origin |-> origin_,
     destination |-> destination_, fare_brand |-> fare_brand_,
     fare_class |-> fare_class_]

\* Segment(): the default segment
DefaultSegment(airports) ==
    Segment(AirCanada, airports[1], airports[2], NoBrand,
            NoBrand.fare_classes[1])

\* the choice made in widget w of segment i, if edit is about that widget
ChoiceFor(edit, i, w) ==
    IF edit.index = i /\ edit.widget = w
    THEN [kind |-> "Choice", value |-> edit.value]
    ELSE NoChoice

\* lines 88-126: the widgets of one segment row
SegmentRow(airports, seg, i, edit) ==
    LET airline_ == Selectbox(AIRLINES, AirlineIndex(AIRLINES, seg.airline),
                              ChoiceFor(edit, i, "airline"))
        origin_  == Selectbox(airports, Index(airports, seg.origin),
                              ChoiceFor(edit, i, "origin"))
        dest_    == Selectbox(airports, Index(airports, seg.destination),
                              ChoiceFor(edit, i, "destination"))
        brand_   == IF Airline_eq(airline_, AirCanada) = "True"
                    THEN Selectbox(FARE_BRANDS,
                                   Index(FARE_BRANDS, seg.fare_brand),
                                   ChoiceFor(edit, i, "fare_brand"))
                    ELSE seg.fare_brand
        class_   == Selectbox(brand_.fare_classes,
                              IF seg.fare_class \in Range(brand_.fare_classes)
                              THEN Index(brand_.fare_classes, seg.fare_class)
                              ELSE 1,
                              ChoiceFor(edit, i, "fare_class"))
    IN  Segment(airline_, origin_, dest_, brand_, class_)

\* lines 60-72: the Add Segment button
AddSegmentButton(airports, segments) ==
    IF segments # <<>>
    THEN LET ref_segment == segments[Len(segments)]
         IN  Append(segments,
                    Segment(ref_segment.airline, ref_segment.destination,
                            ref_segment.origin, ref_segment.fare_brand,
                            ref_segment.fare_class))
    ELSE Append(segments, DefaultSegment(airports))

\* itinerary.calculate(): the segment calculator on each segment in order
Itinerary_calculate(it) ==
    [ i \in DOMAIN it.segments |->
        Airline_calculate(it.segments[i].airline, it.segments[i].origin,
                          it.segments[i].destination,
                          it.segments[i].fare_brand,
                          it.segments[i].fare_class, it.aeroplan_status) ]

\* sum(values[1..k]): 0 + v1 + ... + vk, a TypeError once a value is no number
RECURSIVE PySumTo(_, _)
PySumTo(values, k) ==
    IF k = 0 THEN IntNum(0)
    ELSE LET prev == PySumTo(values, k - 1)
         IN  IF prev.kind # "num" \/ values[k].kind # "num"
             THEN Raised("TypeError")
             ELSE Add(prev, values[k])

\* sum(values)
PySum(values) == PySumTo(values, Len(values))

Field(calcs, name) == [i \in DOMAIN calcs |-> calcs[i][name]]
IntField(calcs, name) == [i \in DOMAIN calcs |-> IntNum(calcs[i][name])]

\* lines 130-143: the totals and metrics of a run (a failing sum ends the
\* run before the metrics are shown)
Totals(calcs, dist, app, app_bonus, sqm, sqd) ==
    LET ok == PySum(Field(calcs, "distance")).kind = "num"
    IN  /\ dist = PySum(Field(calcs, "distance"))
        /\ app = IF ok THEN PySum(IntField(calcs, "app")) ELSE NotStarted
        /\ app_bonus = IF ok THEN PySum(IntField(calcs, "app_bonus"))
                            ELSE NotStarted
        /\ sqm = IF ok THEN PySum(IntField(calcs, "sqm")) ELSE NotStarted
        /\ sqd = IF ok THEN IntNum(0) ELSE NotStarted

\* the itinerary after the widgets of a run: status, button, segment rows
Widgets(airports, it, status, pressed, edit) ==
    LET segs0 == IF pressed THEN AddSegmentButton(airports, it.segments)
                            ELSE it.segments
    IN  [it EXCEPT !.aeroplan_status = status,
                   !.segments = [i \in DOMAIN segs0 |->
                                   SegmentRow(airports, segs0[i], i, edit)]]

\* one run of the script: widgets, calculation, totals
ScriptRun(airports, it, status, pressed, edit) ==
    \E it2 \in {Widgets(airports, it, status, pressed, edit)} :
        \E calcs \in {Itinerary_calculate(it2)} :
            /\ itinerary' = it2
            /\ segment_calculations' = calcs
            /\ Totals(calcs, total_distance', total_app', total_app_bonus',
                      total_sqm', total_sqd')

NoEdit == [index |-> 0, widget |-> "", value |-> NoChoice]

\* the first run: the session gets one itinerary with one default segment
Init ==
    /\ AIRPORTS \in Catalogs
    /\ itinerary = [kind |-> "Itinerary", ticket_number |-> "014",
                    aeroplan_status |-> AEROPLAN_STATUSES[1],
                    segments |-> <<DefaultSegment(AIRPORTS)>>]
    /\ \E calcs \in {Itinerary_calculate(itinerary)} :
            /\ segment_calculations = calcs
            /\ Totals(calcs, total_distance, total_app, total_app_bonus,
                      total_sqm, total_sqd)
    /\ IdleCalc /\ IdleEq

SetAeroplanStatus ==
    \E s \in Range(AEROPLAN_STATUSES) :
        /\ s # itinerary.aeroplan_status
        /\ ScriptRun(AIRPORTS, itinerary, s, FALSE, NoEdit)
        /\ UNCHANGED <<AIRPORTS, calc_vars, eq_vars>>

AddSegment ==
    /\ Len(itinerary.segments) < MaxSegments
    /\ ScriptRun(AIRPORTS, itinerary, itinerary.aeroplan_status, TRUE, NoEdit)
    /\ UNCHANGED <<AIRPORTS, calc_vars, eq_vars>>

Edit(i, w, v) ==
    /\ ScriptRun(AIRPORTS, itinerary, itinerary.aeroplan_status, FALSE,
                 [index |-> i, widget |-> w, value |-> v])
    /\ UNCHANGED <<AIRPORTS, calc_vars, eq_vars>>

SetAirline ==
    \E i \in DOMAIN itinerary.segments, a \in Range(AIRLINES) :
        a # itinerary.segments[i].airline /\ Edit(i, "airline", a)

SetOrigin ==
    \E i \in DOMAIN itinerary.segments, a \in Range(AIRPORTS) :
        a # itinerary.segments[i].origin /\ Edit(i, "origin", a)

SetDestination ==
    \E i \in DOMAIN itinerary.segments, a \in Range(AIRPORTS) :
        a # itinerary.segments[i].destination /\ Edit(i, "destination", a)

SetFareBrand ==
    \E i \in DOMAIN itinerary.segments, b \in Range(FARE_BRANDS) :
        /\ Airline_eq(itinerary.segments[i].airline, AirCanada) = "True"
        /\ b # itinerary.segments[i].fare_brand
        /\ Edit(i, "fare_brand", b)

SetFareClass ==
    \E i \in DOMAIN itinerary.segments :
        \E c \in Range(itinerary.segments[i].fare_brand.fare_classes) :
            c # itinerary.segments[i].fare_class /\ Edit(i, "fare_class", c)

Next ==
    \/ SetAeroplanStatus
    \/ AddSegment
    \/ SetAirline
    \/ SetOrigin
    \/ SetDestination
    \/ SetFareBrand
    \/ SetFareClass

Spec == Init /\ [][Next]_vars

\* the sum of a field over the calculations, from the last one backwards
RECURSIVE TotalOf(_, _)
TotalOf(calcs, name) ==
    IF calcs = <<>> THEN IntNum(0)
    ELSE Add(calcs[Len(calcs)][name],
             TotalOf(SubSeq(calcs, 1, Len(calcs) - 1), name))

RECURSIVE IntTotalOf(_, _)
IntTotalOf(calcs, name) ==
    IF calcs = <<>> THEN 0
    ELSE calcs[Len(calcs)][name]
         + IntTotalOf(SubSeq(calcs, 1, Len(calcs) - 1), name)

\* the calculations are one per segment, in segment order
OnePerSegment ==
    /\ Len(segment_calculations) = Len(itinerary.segments)
    /\ \A i \in DOMAIN itinerary.segments :
         LET seg == itinerary.segments[i]
         IN  segment_calculations[i] =
                 Airline_calculate(seg.airline, seg.origin, seg.destination,
                                   seg.fare_brand, seg.fare_class,
                                   itinerary.aeroplan_status)

\* the totals shown are the sums over the calculations, and 0 SQD
TotalsAreSums ==
    /\ \A i \in DOMAIN segment_calculations :
         segment_calculations[i].distance.kind = "num"
    /\ total_distance.kind = "num"
    /\ NumEq(total_distance, TotalOf(segment_calculations, "distance"))
    /\ total_app = IntNum(IntTotalOf(segment_calculations, "app"))
    /\ total_app_bonus = IntNum(IntTotalOf(segment_calculations, "app_bonus"))
    /\ total_sqm = IntNum(IntTotalOf(segment_calculations, "sqm"))
    /\ total_sqd = IntNum(0)

\* C8: after any sequence of add-segment and edit operations the page holds
\* one calculation per segment in segment order, each total is the sum of
\* its field over them, and the status-qualifying-dollars total is 0.
C8_AggregationTotals == OnePerSegment /\ TotalsAreSums

\* some segment's origin holds a record with neither distance
SomeEmptyRecord ==
    \E i \in DOMAIN itinerary.segments :
        LET seg == itinerary.segments[i]
        IN  /\ seg.destination.iata_code \in DOMAIN seg.origin.distances
            /\ ~Truthy(seg.origin.distances[seg.destination.iata_code].distance)
            /\ ~Truthy(seg.origin.distances[seg.destination.iata_code].old_distance)

\* the aggregation is as C8 says in every run that meets no such record
AggregationTotalsUnlessEmptyRecord == SomeEmptyRecord \/ C8_AggregationTotals

=============================================================================
